---- MODULE Spec2Model ----
(***************************************************************************)
(* Quadra ASCII -> FEC converter (src/app.py).                             *)
(*                                                                         *)
(* A Python str is modelled as a sequence of one-character strings, so     *)
(* that fixed-position slicing, stripping, digit filtering and formatting  *)
(* are computed character by character as the code computes them.          *)
(***************************************************************************)
EXTENDS Integers, Sequences, FiniteSets, TLC

VARIABLES
    pivot,          \* st.number_input "Pivot annee (YY)"
    inject_ech,     \* st.checkbox "Ajouter l'echeance dans EcritureLib"
    lines,          \* the non-blank input lines (indices into InputLines)
    pos,            \* number of lines the parsing loop has consumed
    plan,           \* account registry: compte -> label
    m_rows,         \* parsed M rows, in order of appearance
    meta_rows,      \* control export rows (with R / I annex data)
    last_m_idx,     \* 0-based index in m_rows of the current movement, or None
    pc,             \* position of the script
    df,             \* the data frame built from m_rows
    seen,           \* numbering: composite key -> occurrence counter
    ecriture_nums,  \* numbering: identifiers produced so far
    df_fec,         \* the 18-column output rows
    pm_line,        \* parse_M applied alone: its input line
    pm_pivot,       \* parse_M applied alone: its pivot
    pm_res,         \* parse_M applied alone: its result
    pm_pc,          \* parse_M applied alone: position
    dc_token,       \* ddmmyy_to_yyyymmdd applied alone: its token
    dc_pivot,       \* ddmmyy_to_yyyymmdd applied alone: its pivot
    dc_res,         \* ddmmyy_to_yyyymmdd applied alone: its result
    dc_pc           \* ddmmyy_to_yyyymmdd applied alone: position

runVars == <<pivot, inject_ech, lines, pos, plan, m_rows, meta_rows, last_m_idx,
             pc, df, seen, ecriture_nums, df_fec>>
pmVars == <<pm_line, pm_pivot, pm_res, pm_pc>>
dcVars == <<dc_token, dc_pivot, dc_res, dc_pc>>
vars == <<runVars, pmVars, dcVars>>

-----------------------------------------------------------------------------
(* Characters and elementary string operations                             *)

Digit == {"0", "1", "2", "3", "4", "5", "6", "7", "8", "9"}

DigitChars == <<"0", "1", "2", "3", "4", "5", "6", "7", "8", "9">>

\* Python whitespace that can occur inside a line (line breaks cannot)
WS == {" ", "\t"}

LowerChars == <<"a", "b", "c", "d", "e", "f", "g", "h", "i", "j", "k", "l", "m",
                "n", "o", "p", "q", "r", "s", "t", "u", "v", "w", "x", "y", "z">>

UpperChars == <<"A", "B", "C", "D", "E", "F", "G", "H", "I", "J", "K", "L", "M",
                "N", "O", "P", "Q", "R", "S", "T", "U", "V", "W", "X", "Y", "Z">>

DigitVal(c) == (CHOOSE i \in 1..10 : DigitChars[i] = c) - 1

Min(a, b) == IF a <= b THEN a ELSE b

\* str.strip()
strip(s) ==
    IF \A i \in 1..Len(s) : s[i] \in WS
    THEN <<>>
    ELSE LET a == CHOOSE i \in 1..Len(s) :
                      s[i] \notin WS /\ \A j \in 1..(i - 1) : s[j] \in WS
             b == CHOOSE i \in 1..Len(s) :
                      s[i] \notin WS /\ \A j \in (i + 1)..Len(s) : s[j] \in WS
         IN  SubSeq(s, a, b)

\* str.upper(), character by character
upper(s) ==
    [i \in 1..Len(s) |->
        IF \E k \in 1..26 : LowerChars[k] = s[i]
        THEN UpperChars[CHOOSE k \in 1..26 : LowerChars[k] = s[i]]
        ELSE s[i]]

\* re.sub(r"\D", "", s) and re.sub(r"[^\d]", "", s)
OnlyDigits(s) == SelectSeq(s, LAMBDA c : c \in Digit)

\* int(s) of a short run of digits
RECURSIVE ToInt(_)
ToInt(s) ==
    IF Len(s) = 0 THEN 0
    ELSE 10 * ToInt(SubSeq(s, 1, Len(s) - 1)) + DigitVal(s[Len(s)])

\* str(n) for n >= 0
RECURSIVE ToStr(_)
ToStr(n) ==
    IF n < 10 THEN <<DigitChars[n + 1]>>
    ELSE ToStr(n \div 10) \o <<DigitChars[(n % 10) + 1]>>

\* f"{n:02d}" for 0 <= n
Fmt02d(n) == IF n < 10 THEN <<"0">> \o ToStr(n) ELSE ToStr(n)

\* strftime("%Y") for 1000 <= n <= 9999
Fmt04d(n) == ToStr(n)

\* a run of digits without its leading zeros, "0" if nothing is left
RECURSIVE DropLeadingZeros(_)
DropLeadingZeros(s) ==
    IF Len(s) = 0 THEN <<"0">>
    ELSE IF s[1] = "0" THEN DropLeadingZeros(Tail(s))
    ELSE s

sfix(line, pos1, length) ==
    LET start == pos1 - 1
        end   == start + length
    IN  IF start >= Len(line) THEN <<>>
        ELSE SubSeq(line, start + 1, Min(end, Len(line)))

RECURSIVE CollapseFrom(_, _)
CollapseFrom(t, i) ==
    IF i > Len(t) THEN <<>>
    ELSE IF t[i] \in WS
         THEN (IF i > 1 /\ t[i - 1] \in WS THEN <<>> ELSE <<" ">>) \o CollapseFrom(t, i + 1)
         ELSE <<t[i]>> \o CollapseFrom(t, i + 1)

clean_spaces(s) == CollapseFrom(strip(s), 1)

-----------------------------------------------------------------------------
(* Date codec                                                              *)

IsLeap(y) == (y % 4 = 0 /\ y % 100 # 0) \/ y % 400 = 0

DaysInMonth(y, m) ==
    IF m = 2 THEN (IF IsLeap(y) THEN 29 ELSE 28)
    ELSE IF m \in {4, 6, 9, 11} THEN 30
    ELSE 31

\* datetime(yyyy, mm, dd) does not raise ValueError
DatetimeOk(yyyy, mm, dd) ==
    /\ yyyy \in 1..9999
    /\ mm \in 1..12
    /\ dd >= 1
    /\ dd <= DaysInMonth(yyyy, mm)

\* a mis-windowed pivot comparison (yy > pivot)
CenturyStrict(yy, p) == IF yy > p THEN 1900 + yy ELSE 2000 + yy

Century(yy, p) == IF yy >= p THEN 1900 + yy ELSE 2000 + yy

ddmmyy_to_yyyymmdd(ddmmyy, p) ==
    LET d == OnlyDigits(strip(ddmmyy))
    IN  IF Len(d) # 6 THEN <<>>
        ELSE LET dd   == ToInt(SubSeq(d, 1, 2))
                 mm   == ToInt(SubSeq(d, 3, 4))
                 yy   == ToInt(SubSeq(d, 5, 6))
                 yyyy == Century(yy, p)
             IN  IF DatetimeOk(yyyy, mm, dd)
                 THEN Fmt04d(yyyy) \o Fmt02d(mm) \o Fmt02d(dd)
                 ELSE <<>>

-----------------------------------------------------------------------------
(* Monetary codec                                                          *)

ZeroAmount == <<"0", ".", "0", "0">>

\* f"{sign * (int(digits) / 100):.2f}": for the at most 13 digits of a field
\* the float division and the rounding to two decimals give back the cents
\* exactly; a negative sign is printed also when the value is zero ("-0.00").
FormatCents(neg, digits) ==
    LET n    == Len(digits)
        ip   == IF n > 2 THEN DropLeadingZeros(SubSeq(digits, 1, n - 2)) ELSE <<"0">>
        frac == IF n >= 2 THEN SubSeq(digits, n - 1, n) ELSE <<"0">> \o digits
    IN  (IF neg THEN <<"-">> ELSE <<>>) \o ip \o <<".">> \o frac

signed_cents_to_amount_str(signed13) ==
    LET x == strip(signed13)
    IN  IF Len(x) = 0 THEN ZeroAmount
        ELSE LET digits == OnlyDigits(x)
             IN  IF Len(digits) = 0 THEN ZeroAmount
                 ELSE FormatCents(x[1] = "-", digits)

RECURSIVE nonempty(_)
nonempty(vals) ==
    IF Len(vals) = 0 THEN <<>>
    ELSE IF Len(strip(vals[1])) > 0 THEN strip(vals[1])
    ELSE nonempty(Tail(vals))

\* longest base make_ecriture_num returns unchanged
MaxBaseLen == 20

\* characters of the base kept before the two-digit counter
BasePrefixLen == 18

make_ecriture_num(journal, date_yyyymmdd, piece, seq) ==
    LET joined == strip(journal \o date_yyyymmdd \o piece)
        base   == IF Len(joined) = 0 THEN <<"E", "C", "R">> \o ToStr(seq) ELSE joined
    IN  IF Len(base) > MaxBaseLen
        THEN SubSeq(base, 1, Min(BasePrefixLen, Len(base))) \o Fmt02d(seq % 100)
        ELSE base

-----------------------------------------------------------------------------
(* Line parsers                                                            *)

\* Python's None as a parser result
None == [None |-> TRUE]

ComptePrefix == <<"C", "o", "m", "p", "t", "e", " ">>

\* f"Compte {compte}"
CompteLabel(compte) == ComptePrefix \o compte

\* an account line accepted without the test on its account number
parse_CNoCheck(line) ==
    IF Len(line) = 0 \/ line[1] # "C" THEN None
    ELSE LET compte == strip(sfix(line, 2, 8))
             lib    == clean_spaces(sfix(line, 10, 30))
         IN  [compte |-> compte,
              lib    |-> IF Len(lib) > 0 THEN lib ELSE CompteLabel(compte)]

parse_C(line) ==
    IF Len(line) = 0 \/ line[1] # "C" THEN None
    ELSE LET compte == strip(sfix(line, 2, 8))
             lib    == clean_spaces(sfix(line, 10, 30))
         IN  IF Len(compte) > 0
             THEN [compte |-> compte,
                   lib    |-> IF Len(lib) > 0 THEN lib ELSE CompteLabel(compte)]
             ELSE None

\* the cascade with its authority order reversed
PieceCascadeReversed(piece20, piece10, piece8, piece5) ==
    nonempty(<<piece5, piece8, piece10, piece20>>)

\* the piece-reference cascade of parse_M: 232 > 149 > 100 > 75
PieceCascade(piece20, piece10, piece8, piece5) ==
    nonempty(<<piece20, piece10, piece8, piece5>>)

\* the amount written to both columns
DebitCreditBoth(sens, montant) ==
    IF sens = <<"D">> \/ sens = <<"C">> THEN [Debit |-> montant, Credit |-> montant]
    ELSE [Debit |-> ZeroAmount, Credit |-> ZeroAmount]

\* the debit / credit pair parse_M derives from the sign letter and the amount
DebitCredit(sens, montant) ==
    IF sens = <<"D">> THEN [Debit |-> montant, Credit |-> ZeroAmount]
    ELSE IF sens = <<"C">> THEN [Debit |-> ZeroAmount, Credit |-> montant]
    ELSE [Debit |-> ZeroAmount, Credit |-> ZeroAmount]

parse_M(line, pivot_year) ==
    IF Len(line) = 0 \/ line[1] # "M" THEN None
    ELSE
    LET compte        == strip(sfix(line, 2, 8))
        journal2      == strip(sfix(line, 10, 2))
        folio         == strip(sfix(line, 12, 3))
        date_jjmmaa   == strip(sfix(line, 15, 6))
        date_yyyymmdd == ddmmyy_to_yyyymmdd(date_jjmmaa, pivot_year)
        lib20         == clean_spaces(sfix(line, 22, 20))
        lib30         == clean_spaces(sfix(line, 117, 30))
        ecriture_lib  == nonempty(<<lib30, lib20>>)
        sens          == upper(strip(sfix(line, 42, 1)))
        montant       == signed_cents_to_amount_str(sfix(line, 43, 13))
        dc            == DebitCredit(sens, montant)
        contrepartie  == strip(sfix(line, 56, 8))
        ech_jjmmaa    == strip(sfix(line, 64, 6))
        ech_yyyymmdd  == ddmmyy_to_yyyymmdd(ech_jjmmaa, pivot_year)
        lettrage2     == strip(sfix(line, 70, 2))
        piece5        == strip(sfix(line, 75, 5))
        piece8        == strip(sfix(line, 100, 8))
        piece10       == strip(sfix(line, 149, 10))
        piece20       == strip(sfix(line, 232, 20))
        piece_ref     == PieceCascade(piece20, piece10, piece8, piece5)
        devise        == strip(sfix(line, 108, 3))
        md            == signed_cents_to_amount_str(sfix(line, 169, 13))
        montant_devise == IF Len(devise) > 0 /\ md # ZeroAmount THEN md ELSE <<>>
        idevise       == IF Len(devise) > 0 THEN devise ELSE <<>>
        piece_jointe  == strip(sfix(line, 182, 12))
        code_affaire  == strip(sfix(line, 80, 10))
    IN  [_Folio        |-> folio,
         _Contrepartie |-> contrepartie,
         _DateEcheance |-> ech_yyyymmdd,
         _CodeAffaire  |-> code_affaire,
         _PieceJointe  |-> piece_jointe,
         _Journal2     |-> journal2,
         JournalCode   |-> journal2,
         JournalLib    |-> journal2,
         EcritureNum   |-> <<>>,
         EcritureDate  |-> date_yyyymmdd,
         CompteNum     |-> compte,
         CompteLib     |-> <<>>,
         CompAuxNum    |-> <<>>,
         CompAuxLib    |-> <<>>,
         PieceRef      |-> piece_ref,
         PieceDate     |-> date_yyyymmdd,
         EcritureLib   |-> ecriture_lib,
         Debit         |-> dc.Debit,
         Credit        |-> dc.Credit,
         EcritureLet   |-> lettrage2,
         DateLet       |-> <<>>,
         ValidDate     |-> date_yyyymmdd,
         Montantdevise |-> montant_devise,
         Idevise       |-> idevise]

parse_R(line, pivot_year) ==
    IF Len(line) = 0 \/ line[1] # "R" THEN None
    ELSE [_R_DateEcheance    |-> ddmmyy_to_yyyymmdd(strip(sfix(line, 2, 6)), pivot_year),
          _R_MontantEcheance |-> signed_cents_to_amount_str(sfix(line, 8, 13)),
          _R_ModeRglt        |-> strip(sfix(line, 21, 2)),
          _R_JournalBanque   |-> strip(sfix(line, 23, 2)),
          _R_RefTire         |-> strip(sfix(line, 25, 10))]

parse_I(line) ==
    IF Len(line) = 0 \/ line[1] # "I" THEN None
    ELSE [_I_Pct     |-> strip(sfix(line, 2, 5)),
          _I_Montant |-> signed_cents_to_amount_str(sfix(line, 7, 13)),
          _I_Centre  |-> strip(sfix(line, 20, 10)),
          _I_Nature  |-> strip(sfix(line, 30, 10))]

-----------------------------------------------------------------------------
(* Input lines: built on the documented fixed layout                       *)

Spaces(n) == [i \in 1..n |-> " "]

\* a field left-justified in its column
Pad(s, n) == IF Len(s) >= n THEN SubSeq(s, 1, n) ELSE s \o Spaces(n - Len(s))

NoFields ==
    [compte |-> <<>>, journal |-> <<>>, folio |-> <<>>, date |-> <<>>, lib20 |-> <<>>,
     sens |-> <<>>, montant |-> <<>>, contre |-> <<>>, ech |-> <<>>, lettr |-> <<>>,
     piece5 |-> <<>>, affaire |-> <<>>, piece8 |-> <<>>, devise |-> <<>>, lib30 |-> <<>>,
     piece10 |-> <<>>, mdev |-> <<>>, pj |-> <<>>, piece20 |-> <<>>]

\* an 'M' line of the full export layout (251 characters)
MLine(f) ==
    <<"M">> \o Pad(f.compte, 8) \o Pad(f.journal, 2) \o Pad(f.folio, 3)
    \o Pad(f.date, 6) \o Spaces(1) \o Pad(f.lib20, 20) \o Pad(f.sens, 1)
    \o Pad(f.montant, 13) \o Pad(f.contre, 8) \o Pad(f.ech, 6) \o Pad(f.lettr, 2)
    \o Spaces(3) \o Pad(f.piece5, 5) \o Pad(f.affaire, 10) \o Spaces(10)
    \o Pad(f.piece8, 8) \o Pad(f.devise, 3) \o Spaces(6) \o Pad(f.lib30, 30)
    \o Spaces(2) \o Pad(f.piece10, 10) \o Spaces(10) \o Pad(f.mdev, 13)
    \o Pad(f.pj, 12) \o Spaces(10) \o Spaces(28) \o Pad(f.piece20, 20)

CLine(compte, lib) == <<"C">> \o Pad(compte, 8) \o Pad(lib, 30)

RLine(ech, montant, mode, jbnk, ref) ==
    <<"R">> \o Pad(ech, 6) \o Pad(montant, 13) \o Pad(mode, 2) \o Pad(jbnk, 2) \o Pad(ref, 10)

ILine(pct, montant, centre, nature) ==
    <<"I">> \o Pad(pct, 5) \o Pad(montant, 13) \o Pad(centre, 10) \o Pad(nature, 10)

Amount1318 == <<"+", "0", "0", "0", "0", "0", "0", "0", "0", "1", "3", "1", "8">>
AmountNeg500 == <<"-", "0", "0", "0", "0", "0", "0", "0", "0", "0", "5", "0", "0">>
AmountZero == <<"+", "0", "0", "0", "0", "0", "0", "0", "0", "0", "0", "0", "0">>

FieldsA ==
    [NoFields EXCEPT !.compte = <<"4", "1">>, !.journal = <<"A", "C">>,
                     !.folio = <<"0", "0", "7">>,
                     !.date = <<"0", "1", "0", "1", "2", "5">>, !.lib20 = <<"F", "A", "C">>,
                     !.sens = <<"D">>, !.montant = Amount1318,
                     !.ech = <<"0", "1", "0", "1", "2", "5">>, !.piece5 = <<"P", "1">>]

FieldsB ==
    [NoFields EXCEPT !.compte = <<"6">>, !.journal = <<"V", "T">>,
                     !.date = <<"0", "1", "0", "1", "6", "0">>, !.lib30 = <<"V", " ", " ", "T">>,
                     !.sens = <<"c">>, !.montant = AmountNeg500,
                     !.devise = <<"E", "U", "R">>, !.mdev = Amount1318,
                     !.piece20 = <<"L", "O", "N", "G", "P", "I", "E", "C", "E", "R", "E", "F", "1", "2", "3", "4", "5", "6", "7", "X">>]

\* the sample lines an input is made of
InputLines ==
    << CLine(<<"4", "1">>, <<"A", " ", " ", "B">>),
       CLine(<<"4", "1">>, <<"Z">>),
       <<"C">>,
       MLine(FieldsA),
       MLine(FieldsB),
       <<"M">>,
       RLine(<<"1", "5", "0", "2", "2", "5">>, Amount1318, <<"C", "H">>, <<"B", "Q">>, <<"T">>),
       RLine(<<"0", "1", "0", "3", "2", "5">>, <<>>, <<>>, <<>>, <<>>),
       <<"R">> \o <<"3", "1", "0", "4", "2", "5">>,
       ILine(<<"1", "0", "0">>, Amount1318, <<"C", "1">>, <<"N", "1">>),
       <<"Z", "9">> >>

NumLines == Len(InputLines)

\* longest input of a run
MaxLines == 3

RECURSIVE SeqsUpTo(_, _)
SeqsUpTo(S, n) ==
    IF n = 0 THEN {<<>>}
    ELSE LET shorter == SeqsUpTo(S, n - 1)
         IN  shorter \cup {Append(q, x) : q \in {r \in shorter : Len(r) = n - 1}, x \in S}

\* the widget's default pivot, and the pivots a run is started with
DefaultPivot == 70
RunPivots == {DefaultPivot, 30}

-----------------------------------------------------------------------------
(* The run: parsing loop, FEC construction, numbering                      *)

\* last_m_idx = None
NoIdx == -1

EmptyDict == [k \in {} |-> <<>>]

\* a dict assignment that keeps an existing entry (first write wins)
DictSetKeepFirst(d, k, v) ==
    [x \in (DOMAIN d) \cup {k} |-> IF x \in DOMAIN d THEN d[x] ELSE v]

\* d[k] = v on a Python dict
DictSet(d, k, v) == [x \in (DOMAIN d) \cup {k} |-> IF x = k THEN v ELSE d[x]]

\* d.get(k, default)
DictGet(d, k, default) == IF k \in DOMAIN d THEN d[k] ELSE default

\* the line the loop is about to process, and its tag
CurLine == InputLines[lines[pos + 1]]
Tag(line) == IF Len(line) = 0 THEN "" ELSE line[1]

\* the parsers' results on the sample lines, computed once per line
ParsedC == [i \in 1..NumLines |-> parse_C(InputLines[i])]
ParsedM == [i \in 1..NumLines |-> [p \in RunPivots |-> parse_M(InputLines[i], p)]]
ParsedR == [i \in 1..NumLines |-> [p \in RunPivots |-> parse_R(InputLines[i], p)]]
ParsedI == [i \in 1..NumLines |-> parse_I(InputLines[i])]

\* p = parse_C(line), m = parse_M(line, pivot_year=int(pivot)), ... on the current line
CurC == ParsedC[lines[pos + 1]]
CurM == ParsedM[lines[pos + 1]][pivot]
CurR == ParsedR[lines[pos + 1]][pivot]
CurI == ParsedI[lines[pos + 1]]

MetaOfM(m) ==
    ("Journal" :> m.JournalCode) @@ ("DateEcriture" :> m.EcritureDate)
    @@ ("Compte" :> m.CompteNum) @@ ("SensDebit" :> m.Debit)
    @@ ("SensCredit" :> m.Credit) @@ ("PieceRef" :> m.PieceRef)
    @@ ("Libelle" :> m.EcritureLib) @@ ("DateEcheance(M)" :> m._DateEcheance)
    @@ ("CodeAffaire" :> m._CodeAffaire) @@ ("PieceJointe" :> m._PieceJointe)

MetaOfR(r) ==
    ("DateEcheance(R)" :> r._R_DateEcheance)
    @@ ("MontantEcheance(R)" :> r._R_MontantEcheance)
    @@ ("ModeRglt(R)" :> r._R_ModeRglt)
    @@ ("JournalBanque(R)" :> r._R_JournalBanque)
    @@ ("RefTire(R)" :> r._R_RefTire)

MetaOfI(i) ==
    ("Anal_Centre" :> i._I_Centre) @@ ("Anal_Nature" :> i._I_Nature)
    @@ ("Anal_Montant" :> i._I_Montant) @@ ("Anal_Pct" :> i._I_Pct)

\* meta_rows[-1].update(u)
UpdateLast(rows, u) == [rows EXCEPT ![Len(rows)] = u @@ @]

\* the row inserted at the head of the list
AppendRowFirst(rows, m) == <<m>> \o rows

\* m_rows.append(m)
AppendRow(rows, m) == Append(rows, m)

\* the annex due date attached to the first movement instead of the current one
AttachEcheanceFirst(rows, idx, r) ==
    IF Len(r._R_DateEcheance) > 0
    THEN [rows EXCEPT ![1]._DateEcheance = r._R_DateEcheance]
    ELSE rows

\* the R branch's effect on m_rows
AttachEcheance(rows, idx, r) ==
    IF Len(r._R_DateEcheance) > 0
    THEN [rows EXCEPT ![idx + 1]._DateEcheance = r._R_DateEcheance]
    ELSE rows

Parsing == pc = "parse" /\ pos < Len(lines)

ProcessC ==
    /\ Parsing
    /\ Tag(CurLine) = "C"
    /\ LET p == CurC
       IN  plan' = IF p # None THEN DictSet(plan, p.compte, p.lib) ELSE plan
    /\ pos' = pos + 1
    /\ UNCHANGED <<pivot, inject_ech, lines, m_rows, meta_rows, last_m_idx, pc, df,
                   seen, ecriture_nums, df_fec>>
    /\ UNCHANGED <<pmVars, dcVars>>

ProcessM ==
    /\ Parsing
    /\ Tag(CurLine) = "M"
    /\ LET m == CurM
       IN  IF m # None
           THEN /\ m_rows' = AppendRow(m_rows, m)
                /\ meta_rows' = Append(meta_rows, MetaOfM(m))
                /\ last_m_idx' = Len(m_rows') - 1
           ELSE UNCHANGED <<m_rows, meta_rows, last_m_idx>>
    /\ pos' = pos + 1
    /\ UNCHANGED <<pivot, inject_ech, lines, plan, pc, df, seen, ecriture_nums, df_fec>>
    /\ UNCHANGED <<pmVars, dcVars>>

ProcessR ==
    /\ Parsing
    /\ Tag(CurLine) = "R"
    /\ last_m_idx # NoIdx
    /\ LET r == CurR
       IN  IF r # None
           THEN /\ m_rows' = AttachEcheance(m_rows, last_m_idx, r)
                /\ meta_rows' = UpdateLast(meta_rows, MetaOfR(r))
           ELSE UNCHANGED <<m_rows, meta_rows>>
    /\ pos' = pos + 1
    /\ UNCHANGED <<pivot, inject_ech, lines, plan, last_m_idx, pc, df, seen,
                   ecriture_nums, df_fec>>
    /\ UNCHANGED <<pmVars, dcVars>>

ProcessI ==
    /\ Parsing
    /\ Tag(CurLine) = "I"
    /\ last_m_idx # NoIdx
    /\ LET i == CurI
       IN  IF i # None
           THEN meta_rows' = UpdateLast(meta_rows, MetaOfI(i))
           ELSE UNCHANGED meta_rows
    /\ pos' = pos + 1
    /\ UNCHANGED <<pivot, inject_ech, lines, plan, m_rows, last_m_idx, pc, df, seen,
                   ecriture_nums, df_fec>>
    /\ UNCHANGED <<pmVars, dcVars>>

\* an orphan annex line that leaves a control row behind
SkipLineAppendsMeta ==
    /\ Parsing
    /\ Tag(CurLine) \notin {"C", "M"}
    /\ ~(Tag(CurLine) = "R" /\ last_m_idx # NoIdx)
    /\ ~(Tag(CurLine) = "I" /\ last_m_idx # NoIdx)
    /\ meta_rows' = IF Tag(CurLine) \in {"R", "I"} THEN Append(meta_rows, EmptyDict)
                    ELSE meta_rows
    /\ pos' = pos + 1
    /\ UNCHANGED <<pivot, inject_ech, lines, plan, m_rows, last_m_idx, pc,
                   df, seen, ecriture_nums, df_fec>>
    /\ UNCHANGED <<pmVars, dcVars>>

\* no branch of the if / elif chain is taken
SkipLine ==
    /\ Parsing
    /\ Tag(CurLine) \notin {"C", "M"}
    /\ ~(Tag(CurLine) = "R" /\ last_m_idx # NoIdx)
    /\ ~(Tag(CurLine) = "I" /\ last_m_idx # NoIdx)
    /\ pos' = pos + 1
    /\ UNCHANGED <<pivot, inject_ech, lines, plan, m_rows, meta_rows, last_m_idx, pc,
                   df, seen, ecriture_nums, df_fec>>
    /\ UNCHANGED <<pmVars, dcVars>>

\* an emptiness test that never stops the run
MovementsReadAlways(rows) == TRUE

\* the truth value of m_rows
MovementsRead(rows) == Len(rows) > 0

\* if not m_rows: st.error(...); st.stop()
NoMovements ==
    /\ pc = "parse"
    /\ pos = Len(lines)
    /\ ~MovementsRead(m_rows)
    /\ pc' = "stopped"
    /\ UNCHANGED <<pivot, inject_ech, lines, pos, plan, m_rows, meta_rows, last_m_idx,
                   df, seen, ecriture_nums, df_fec>>
    /\ UNCHANGED <<pmVars, dcVars>>

\* df["CompteNum"].map(plan).fillna(df["CompteNum"].map(lambda x: f"Compte {x}"))
LookupLib(registry, compte) ==
    IF compte \in DOMAIN registry THEN registry[compte] ELSE CompteLabel(compte)

EchMarker == <<"E", "C", "H", ":">>

_lib_with_ech(row) ==
    LET ech == strip(row._DateEcheance)
    IN  IF Len(ech) > 0
        THEN LET base == row.EcritureLib
             IN  IF Len(base) > 0
                 THEN SubSeq(base, 1, Min(200, Len(base))) \o <<" ", "|", " ">> \o EchMarker \o ech
                 ELSE EchMarker \o ech
        ELSE row.EcritureLib

\* df = pd.DataFrame(m_rows), CompteLib injection, optional due date in the label
BuildFrame ==
    /\ pc = "parse"
    /\ pos = Len(lines)
    /\ MovementsRead(m_rows)
    /\ df' = [k \in 1..Len(m_rows) |->
                LET withLib == [m_rows[k] EXCEPT !.CompteLib = LookupLib(plan, m_rows[k].CompteNum)]
                IN  IF inject_ech
                    THEN [withLib EXCEPT !.EcritureLib = _lib_with_ech(withLib)]
                    ELSE withLib]
    /\ seen' = EmptyDict
    /\ ecriture_nums' = <<>>
    /\ pc' = "number"
    /\ UNCHANGED <<pivot, inject_ech, lines, pos, plan, m_rows, meta_rows, last_m_idx,
                   df_fec>>
    /\ UNCHANGED <<pmVars, dcVars>>

RowKey(row) == <<row.JournalCode, row.EcritureDate, row.PieceRef>>

\* one iteration of the numbering loop
NumberRow ==
    /\ pc = "number"
    /\ Len(ecriture_nums) < Len(df)
    /\ LET row == df[Len(ecriture_nums) + 1]
           key == RowKey(row)
           n   == DictGet(seen, key, 0) + 1
       IN  /\ seen' = DictSet(seen, key, n)
           /\ ecriture_nums' = Append(ecriture_nums,
                  make_ecriture_num(row.JournalCode, row.EcritureDate, row.PieceRef, n))
    /\ UNCHANGED <<pivot, inject_ech, lines, pos, plan, m_rows, meta_rows, last_m_idx,
                   pc, df, df_fec>>
    /\ UNCHANGED <<pmVars, dcVars>>

FEC_COLS ==
    {"JournalCode", "JournalLib", "EcritureNum", "EcritureDate", "CompteNum",
     "CompteLib", "CompAuxNum", "CompAuxLib", "PieceRef", "PieceDate", "EcritureLib",
     "Debit", "Credit", "EcritureLet", "DateLet", "ValidDate", "Montantdevise", "Idevise"}

\* df["EcritureNum"] = ecriture_nums; df_fec = df[FEC_COLS].copy()
Project ==
    /\ pc = "number"
    /\ Len(ecriture_nums) = Len(df)
    /\ df' = [k \in 1..Len(df) |-> [df[k] EXCEPT !.EcritureNum = ecriture_nums[k]]]
    /\ df_fec' = [k \in 1..Len(df) |-> [c \in FEC_COLS |-> df'[k][c]]]
    /\ pc' = "done"
    /\ UNCHANGED <<pivot, inject_ech, lines, pos, plan, m_rows, meta_rows, last_m_idx,
                   seen, ecriture_nums>>
    /\ UNCHANGED <<pmVars, dcVars>>

PMIdle == pm_line = <<>> /\ pm_pivot = DefaultPivot /\ pm_res = None /\ pm_pc = "idle"

DCIdle == dc_token = <<>> /\ dc_pivot = DefaultPivot /\ dc_res = <<>> /\ dc_pc = "idle"

RunIdle ==
    /\ pivot = DefaultPivot
    /\ inject_ech = TRUE
    /\ lines = <<>>
    /\ pos = 0
    /\ plan = EmptyDict
    /\ m_rows = <<>>
    /\ meta_rows = <<>>
    /\ last_m_idx = NoIdx
    /\ pc = "idle"
    /\ df = <<>>
    /\ seen = EmptyDict
    /\ ecriture_nums = <<>>
    /\ df_fec = <<>>

Init ==
    /\ pivot \in RunPivots
    /\ inject_ech \in BOOLEAN
    /\ lines \in SeqsUpTo(1..NumLines, MaxLines)
    /\ pos = 0
    /\ plan = EmptyDict
    /\ m_rows = <<>>
    /\ meta_rows = <<>>
    /\ last_m_idx = NoIdx
    /\ pc = "parse"
    /\ df = <<>>
    /\ seen = EmptyDict
    /\ ecriture_nums = <<>>
    /\ df_fec = <<>>
    /\ PMIdle
    /\ DCIdle

Next ==
    \/ ProcessC
    \/ ProcessM
    \/ ProcessR
    \/ ProcessI
    \/ SkipLine
    \/ NoMovements
    \/ BuildFrame
    \/ NumberRow
    \/ Project

Spec == Init /\ [][Next]_vars

-----------------------------------------------------------------------------
(* parse_M applied to one line                                             *)

SensSamples == {<<>>, <<"D">>, <<"C">>, <<"d">>, <<"X">>}

AmountSamples ==
    {<<>>, Amount1318, AmountNeg500, AmountZero, <<"-", "0", "0", "0", "0", "0", "0", "0", "0", "0", "0", "0", "0">>, <<"0", "0", "0", "0", "0", "0", "0", "0", "0", "0", "0", "4", "2">>, <<"+", "A", "B", "C">>}

PieceSamples == {<<>>, <<"P">>}

\* 'M' lines with every combination of sign letter, amount token and
\* piece-reference candidates, whole or cut short
ParseMLines ==
    LET full == {MLine([FieldsA EXCEPT !.sens = s, !.montant = a,
                                       !.piece5  = p5  \o (IF Len(p5)  > 0 THEN <<"5">> ELSE <<>>),
                                       !.piece8  = p8  \o (IF Len(p8)  > 0 THEN <<"8">> ELSE <<>>),
                                       !.piece10 = p10 \o (IF Len(p10) > 0 THEN <<"1", "0">> ELSE <<>>),
                                       !.piece20 = p20 \o (IF Len(p20) > 0 THEN <<"2", "0">> ELSE <<>>)]) :
                    s \in SensSamples, a \in AmountSamples,
                    p5 \in PieceSamples, p8 \in PieceSamples,
                    p10 \in PieceSamples, p20 \in PieceSamples}
        cut  == {SubSeq(MLine(FieldsA), 1, n) : n \in {1, 20, 42, 54, 55, 79, 107, 158}}
    IN  full \cup cut

PMInit ==
    /\ pm_line \in ParseMLines
    /\ pm_pivot \in RunPivots
    /\ pm_res = None
    /\ pm_pc = "start"
    /\ RunIdle
    /\ DCIdle

ApplyParseM ==
    /\ pm_pc = "start"
    /\ pm_res' = parse_M(pm_line, pm_pivot)
    /\ pm_pc' = "done"
    /\ UNCHANGED <<pm_line, pm_pivot>>
    /\ UNCHANGED <<runVars, dcVars>>

PMNext == ApplyParseM

SpecParseM == PMInit /\ [][PMNext]_vars

-----------------------------------------------------------------------------
(* ddmmyy_to_yyyymmdd applied to one token                                 *)

\* range of the pivot widget
MinPivot == 0
MaxPivot == 99

DaySamples == {0, 1, 28, 29, 30, 31, 32}
MonthSamples == {0, 1, 2, 4, 12, 13}
YearSamples == {0, 4, 25, 69, 70, 71, 99}

DateTokens ==
    {Fmt02d(d) \o Fmt02d(m) \o Fmt02d(y) :
        d \in DaySamples, m \in MonthSamples, y \in YearSamples}
    \cup {<<>>, <<"0", "1", "0", "1">>, <<"0", "1", "0", "1", "2", "5", "1">>, <<"0", "1", "/", "0", "1", "/", "2", "5">>, <<" ", "2", "9", "0", "2", "0", "0">>, <<"a", "b">>}

DCInit ==
    /\ dc_token \in DateTokens
    /\ dc_pivot \in MinPivot..MaxPivot
    /\ dc_res = <<>>
    /\ dc_pc = "start"
    /\ RunIdle
    /\ PMIdle

ApplyDate ==
    /\ dc_pc = "start"
    /\ dc_res' = ddmmyy_to_yyyymmdd(dc_token, dc_pivot)
    /\ dc_pc' = "done"
    /\ UNCHANGED <<dc_token, dc_pivot>>
    /\ UNCHANGED <<runVars, pmVars>>

DCNext == ApplyDate

SpecDate == DCInit /\ [][DCNext]_vars

-----------------------------------------------------------------------------
(* Properties                                                              *)

LineAt(i) == InputLines[lines[i]]

\* positions, among the first n input lines, of the 'M' lines parse_M accepts
MPositions(n) == {i \in 1..n : Tag(LineAt(i)) = "M" /\ ParsedM[lines[i]][pivot] # None}

\* position of the k-th accepted 'M' line
KthM(k, n) ==
    CHOOSE i \in MPositions(n) : Cardinality({j \in MPositions(n) : j <= i}) = k

SetMax(S) == CHOOSE x \in S : \A y \in S : y <= x

RunEnded == pc \in {"done", "stopped"}

\* C1: in one run, two Movement records with the identical composite key
\* (JournalCode, EcritureDate, PieceRef) receive distinct EcritureNum identifiers.
C1_DistinctNums ==
    pc = "done" =>
        \A j \in 1..Len(df_fec) : \A k \in 1..Len(df_fec) :
            (j < k /\ RowKey(df_fec[j]) = RowKey(df_fec[k]))
                => df_fec[j].EcritureNum # df_fec[k].EcritureNum

\* the sign letter of an 'M' line as parse_M reads it (trimmed, upper-cased)
SignLetter(line) == upper(strip(sfix(line, 42, 1)))

\* an amount token that decodes to "0.00": empty, without digit, or all zeros
\* without a leading minus
ZeroToken(tok) ==
    LET x == strip(tok)
    IN  \/ Len(x) = 0
        \/ \A i \in 1..Len(x) : x[i] \notin Digit
        \/ x[1] # "-" /\ \A i \in 1..Len(x) : (x[i] \in Digit => x[i] = "0")

\* C2 as stated: for every record, exactly one of Debit / Credit is "0.00" when
\* the sign letter is D or C, whatever the amount token, and both are "0.00"
\* when the sign letter is neither.
C2_ExactlyOneZero ==
    (pm_pc = "done" /\ pm_res # None) =>
        IF SignLetter(pm_line) \in {<<"D">>, <<"C">>}
        THEN (pm_res.Debit = ZeroAmount) # (pm_res.Credit = ZeroAmount)
        ELSE pm_res.Debit = ZeroAmount /\ pm_res.Credit = ZeroAmount

\* C2 amended: at least one of Debit / Credit is "0.00" (never both non-zero);
\* both are "0.00" exactly when the sign letter is neither D nor C or the amount
\* token decodes to "0.00"; otherwise exactly one is "0.00".
C2_SignExclusivity ==
    (pm_pc = "done" /\ pm_res # None) =>
        /\ pm_res.Debit = ZeroAmount \/ pm_res.Credit = ZeroAmount
        /\ (pm_res.Debit = ZeroAmount /\ pm_res.Credit = ZeroAmount)
             <=> (\/ SignLetter(pm_line) \notin {<<"D">>, <<"C">>}
                  \/ ZeroToken(sfix(pm_line, 43, 13)))

C2_Witness ==
    /\ pm_pc = "done"
    /\ pm_res # None
    /\ SignLetter(pm_line) = <<"D">>
    /\ sfix(pm_line, 43, 13) = AmountZero
    /\ pm_res.Debit = ZeroAmount
    /\ pm_res.Credit = ZeroAmount

\* the due date an 'R' line carries
AnnexDue(line) == ddmmyy_to_yyyymmdd(strip(sfix(line, 2, 6)), pivot)

\* the due date the k-th movement must have after n lines: the last non-empty
\* due date of the 'R' lines between its 'M' line and the next 'M' line, or
\* its own inline due date
ExpectedDue(k, n) ==
    LET i    == KthM(k, n)
        nxt  == IF k < Cardinality(MPositions(n)) THEN KthM(k + 1, n) ELSE n + 1
        rs   == {j \in (i + 1)..(nxt - 1) :
                    Tag(LineAt(j)) = "R" /\ Len(AnnexDue(LineAt(j))) > 0}
    IN  IF rs = {} THEN ddmmyy_to_yyyymmdd(strip(sfix(LineAt(i), 64, 6)), pivot)
        ELSE AnnexDue(LineAt(SetMax(rs)))

\* C3: a non-empty annex due date replaces the due date of the most recently
\* appended Movement and of no other, an empty one changes nothing: at every
\* point of the scan each Movement's due date is the last non-empty due date
\* of the R lines that follow it before the next M line, or its inline one.
C3_AnnexOverride ==
    pc = "parse" =>
        \A k \in 1..Len(m_rows) : m_rows[k]._DateEcheance = ExpectedDue(k, pos)

C3_Witness ==
    /\ pc = "parse"
    /\ pos = 3
    /\ Len(m_rows) = 2
    /\ Tag(LineAt(3)) = "R"
    /\ Len(AnnexDue(LineAt(3))) > 0
    /\ m_rows[2]._DateEcheance = AnnexDue(LineAt(3))
    /\ m_rows[1]._DateEcheance # AnnexDue(LineAt(3))
    /\ Len(m_rows[1]._DateEcheance) > 0

\* the four piece-reference candidates of an 'M' line, most authoritative first
Candidates(line) ==
    <<strip(sfix(line, 232, 20)), strip(sfix(line, 149, 10)),
      strip(sfix(line, 100, 8)), strip(sfix(line, 75, 5))>>

\* C4: PieceRef is the first non-empty candidate in the order 232 > 149 > 100 > 75,
\* and when all four are empty it is the raw entry number, not the empty string.
C4_PieceCascade ==
    (pm_pc = "done" /\ pm_res # None) =>
        LET c == Candidates(pm_line)
        IN  IF \E i \in 1..4 : Len(c[i]) > 0
            THEN pm_res.PieceRef =
                    c[CHOOSE i \in 1..4 : Len(c[i]) > 0 /\ \A j \in 1..(i - 1) : Len(c[j]) = 0]
            ELSE Len(pm_res.PieceRef) > 0

\* C4 amended: PieceRef is the first non-empty candidate in the order
\* 232 > 149 > 100 > 75, and the empty string when all four are empty (the
\* layout holds no entry-number field to fall back on).
C4_PieceCascadeOrEmpty ==
    (pm_pc = "done" /\ pm_res # None) =>
        LET c == Candidates(pm_line)
        IN  IF \E i \in 1..4 : Len(c[i]) > 0
            THEN pm_res.PieceRef =
                    c[CHOOSE i \in 1..4 : Len(c[i]) > 0 /\ \A j \in 1..(i - 1) : Len(c[j]) = 0]
            ELSE pm_res.PieceRef = <<>>

C4_Witness ==
    /\ pm_pc = "done"
    /\ pm_res # None
    /\ Len(pm_line) >= 251
    /\ \A i \in 1..4 : Len(Candidates(pm_line)[i]) = 0
    /\ Len(strip(sfix(pm_line, 12, 3))) > 0
    /\ pm_res.PieceRef = <<>>

\* shortest 'M' line holding the mandatory fields up to the signed amount
MinMLen == 55

\* a line the claim calls unparsable
Unparsable(line) ==
    \/ Tag(line) \notin {"C", "M", "R", "I"}
    \/ Tag(line) = "M" /\ Len(line) < MinMLen
    \/ Tag(line) \in {"C", "R", "I"} /\ Len(line) < 2

\* C5: an unparsable line (unknown tag, or shorter than the minimum length of
\* its kind, e.g. the line "M") produces no Movement and leaves the registry,
\* the Movement sequence and the current-movement pointer unchanged.
C5_UnparsableNoOp ==
    [][(Parsing /\ Unparsable(CurLine))
         => (plan' = plan /\ m_rows' = m_rows /\ last_m_idx' = last_m_idx)]_vars

\* a 'C' line whose account field (positions 2 to 9) is blank or missing
BlankAccount(line) == Tag(line) = "C" /\ \A i \in 2..Min(9, Len(line)) : line[i] \in WS

\* C5 amended: a line whose first character is none of C, M, R, I, and a 'C'
\* line whose account field is blank or missing, leave the registry, the
\* Movement sequence and the current-movement pointer unchanged; an 'M' line
\* has no minimum length: every 'M' line, even the line "M", appends one
\* Movement, which becomes the current movement.
C5_SkippedOrAppended ==
    [][/\ (Parsing /\ (Tag(CurLine) \notin {"C", "M", "R", "I"} \/ BlankAccount(CurLine)))
            => (plan' = plan /\ m_rows' = m_rows /\ last_m_idx' = last_m_idx)
       /\ (Parsing /\ Tag(CurLine) = "M")
            => /\ Len(m_rows') = Len(m_rows) + 1
               /\ SubSeq(m_rows', 1, Len(m_rows)) = m_rows
               /\ last_m_idx' = Len(m_rows)
               /\ plan' = plan]_vars

C5_Witness ==
    /\ pc = "parse"
    /\ pos = 2
    /\ LineAt(1) = <<"C">>
    /\ LineAt(2) = <<"M">>
    /\ plan = EmptyDict
    /\ Len(m_rows) = 1
    /\ m_rows[1].CompteNum = <<>>
    /\ m_rows[1].Debit = ZeroAmount
    /\ m_rows[1].Credit = ZeroAmount
    /\ last_m_idx = 0

\* C6: an R or I line processed while no current movement exists (no Movement
\* appended yet) changes neither the Movement sequence, nor the annex metadata,
\* nor the registry, and the scan goes on to the next line.
C6_OrphanAnnex ==
    [][(Parsing /\ Tag(CurLine) \in {"R", "I"} /\ Len(m_rows) = 0)
         => /\ last_m_idx = NoIdx
            /\ m_rows' = m_rows
            /\ meta_rows' = meta_rows
            /\ plan' = plan
            /\ last_m_idx' = last_m_idx
            /\ pos' = pos + 1
            /\ pc' = "parse"]_vars

C6_Witness ==
    /\ pc = "done"
    /\ Len(lines) >= 2
    /\ Tag(LineAt(1)) \in {"R", "I"}
    /\ Len(df_fec) = 1

\* the fields of an output record that are copied from its 'M' line
DerivedFrom(rec, i) ==
    LET src == ParsedM[lines[i]][pivot]
    IN  /\ rec.JournalCode = src.JournalCode
        /\ rec.EcritureDate = src.EcritureDate
        /\ rec.CompteNum = src.CompteNum
        /\ rec.PieceRef = src.PieceRef
        /\ rec.Debit = src.Debit
        /\ rec.Credit = src.Credit
        /\ rec.EcritureLet = src.EcritureLet
        /\ rec.Idevise = src.Idevise
        /\ rec.Montantdevise = src.Montantdevise

\* C7: the output has exactly one record per successfully parsed 'M' line and
\* the k-th record is derived from the k-th such line; C, R and I lines, label
\* injection and numbering never add, remove or reorder records.
C7_OrderPreserved ==
    /\ pc = "parse" => Len(m_rows) = Cardinality(MPositions(pos))
    /\ pc = "done" =>
        /\ Len(df_fec) = Cardinality(MPositions(Len(lines)))
        /\ \A k \in 1..Len(df_fec) :
               DerivedFrom(df_fec[k], KthM(k, Len(lines)))

C7_Witness ==
    /\ pc = "done"
    /\ Len(df_fec) = 2
    /\ df_fec[1].CompteNum # df_fec[2].CompteNum
    /\ \E i \in 1..Len(lines) : Tag(LineAt(i)) \in {"C", "R", "I"}

\* C8: a run that yields no Movement ends in the fatal "no movements" outcome
\* and emits no rows; a run with at least one Movement and no Account line ends
\* normally with one row per Movement and a synthesized label; no line stops
\* the scan before the end of the input.
C8_EmptyResult ==
    /\ pc = "stopped" => (Len(m_rows) = 0 /\ pos = Len(lines) /\ Len(df_fec) = 0)
    /\ (pos = Len(lines) /\ MPositions(Len(lines)) = {}) => pc \in {"parse", "stopped"}
    /\ pc = "done" =>
        /\ MPositions(Len(lines)) # {}
        /\ Len(df_fec) = Len(m_rows)
        /\ Len(df_fec) >= 1
        /\ (\A i \in 1..Len(lines) : Tag(LineAt(i)) # "C")
              => \A k \in 1..Len(df_fec) :
                    df_fec[k].CompteLib = ComptePrefix \o df_fec[k].CompteNum
    /\ RunEnded => pos = Len(lines)
    /\ ~RunEnded => ENABLED Next

C8_Witness ==
    /\ pc = "stopped"
    /\ Len(lines) >= 2
    /\ \E i \in 1..Len(lines) : Tag(LineAt(i)) \in {"R", "I"}
    /\ \E i \in 1..Len(lines) : Tag(LineAt(i)) \notin {"C", "M", "R", "I"}

\* lengths of the months of a common year
MonthLengths == <<31, 28, 31, 30, 31, 30, 31, 31, 30, 31, 30, 31>>

\* (y, m, d) is a date of the Gregorian calendar
RealDate(y, m, d) ==
    /\ m >= 1 /\ m <= 12
    /\ d >= 1
    /\ \/ d <= MonthLengths[m]
       \/ m = 2 /\ d = 29 /\ y % 4 = 0 /\ (y % 100 # 0 \/ y % 400 = 0)

\* C9: a token that reduces to six digits DDMMYY naming a real calendar date is
\* decoded to the eight digits YYYYMMDD with YYYY = 1900+YY when YY >= pivot and
\* 2000+YY otherwise; any other token is decoded to the empty string.
C9_DateCodec ==
    dc_pc = "done" =>
        LET d  == OnlyDigits(strip(dc_token))
            dd == ToInt(SubSeq(d, 1, 2))
            mm == ToInt(SubSeq(d, 3, 4))
            yy == ToInt(SubSeq(d, 5, 6))
            y  == IF yy >= dc_pivot THEN 1900 + yy ELSE 2000 + yy
        IN  IF Len(d) = 6 /\ RealDate(y, mm, dd)
            THEN /\ Len(dc_res) = 8
                 /\ \A i \in 1..8 : dc_res[i] \in Digit
                 /\ ToInt(dc_res) = y * 10000 + mm * 100 + dd
            ELSE dc_res = <<>>

C9_Witness ==
    /\ dc_pc = "done"
    /\ dc_token = <<"0", "1", "0", "1", "7", "0">>
    /\ dc_pivot = 70
    /\ dc_res = <<"1", "9", "7", "0", "0", "1", "0", "1">>

\* positions of the 'C' lines of the whole input that define account c
Definers(c) ==
    {i \in 1..Len(lines) :
        /\ Tag(LineAt(i)) = "C"
        /\ Len(strip(sfix(LineAt(i), 2, 8))) > 0
        /\ strip(sfix(LineAt(i), 2, 8)) = c}

\* the label a defining 'C' line gives: its label field, whitespace-normalised,
\* or the synthesized one when that is empty
LabelOf(line) ==
    LET lib == clean_spaces(sfix(line, 10, 30))
    IN  IF Len(lib) > 0 THEN lib ELSE ComptePrefix \o strip(sfix(line, 2, 8))

\* C10: CompteLib of every output record is the label of the last 'C' line of
\* the whole input that defines its account, wherever that line stands, or the
\* synthesized label when none does; a 'C' line changes only the registry.
C10_FinalRegistry ==
    /\ [](pc = "done" =>
            \A k \in 1..Len(df_fec) :
                LET c == df_fec[k].CompteNum
                IN  df_fec[k].CompteLib =
                       IF Definers(c) = {} THEN ComptePrefix \o c
                       ELSE LabelOf(LineAt(SetMax(Definers(c)))))
    /\ [][(Parsing /\ Tag(CurLine) = "C")
            => (m_rows' = m_rows /\ meta_rows' = meta_rows /\ last_m_idx' = last_m_idx)]_vars

C10_Witness ==
    /\ pc = "done"
    /\ Len(df_fec) = 1
    /\ Cardinality(Definers(df_fec[1].CompteNum)) = 2
    /\ \E i \in Definers(df_fec[1].CompteNum) : \E j \in 1..Len(lines) :
          /\ i < j
          /\ Tag(LineAt(j)) = "M"
          /\ LabelOf(LineAt(i)) # df_fec[1].CompteLib
    /\ \E i \in Definers(df_fec[1].CompteNum) : \E j \in 1..Len(lines) :
          /\ j < i
          /\ Tag(LineAt(j)) = "M"
          /\ LabelOf(LineAt(i)) = df_fec[1].CompteLib

====
